---- MODULE Spec2Model ----
(***************************************************************************)
(* Violation-event aggregation of the exam backend: the socket handler     *)
(* suspicious_event (events.py) and the HTTP handlers /api/test/submit and *)
(* /api/violations/manual (app.py), all working on the table test_results. *)
(*                                                                         *)
(* Every call on the record store (select, insert, update, upsert) is one  *)
(* atomic step; the Python code between two store calls runs with the call *)
(* that follows it.  A handler keeps what it read in a local copy.         *)
(***************************************************************************)
EXTENDS Integers, Sequences, FiniteSets, TLC

\* Handlers that can be in progress at the same time.
NumProcs == 2
\* Requests (events, submits, manual inserts) received in one run.
MaxRequests == 2

Procs == 1..NumProcs

\* events.py:19-27
VALID_COLUMNS ==
    {"tab_switches", "inactivities", "text_selections", "copies", "pastes",
     "right_clicks", "face_not_visible"}

\* Python None (what data.get(key) gives for a JSON null and for an absent
\* key), SQL NULL.
None == "<None>"

\* A key the request does not have, where the code reads it with a default:
\* data.get(key, default) gives the default for an absent key and None for a
\* JSON null.
Absent == "<absent>"

\* JSON values of a payload field: an integer, or something that is no number
\* (a string, null); Python raises TypeError on  "x" > 0.  Floats and booleans
\* are not among the inputs.
IntV(n) == [t |-> "int", v |-> n]
StrV == [t |-> "str", v |-> 0]

\* data.get(col, 0)
Get(d, col) == IF col \in DOMAIN d.fields THEN d.fields[col] ELSE IntV(0)

\* The comparison v > 0 of events.py:155 / app.py:117 raises TypeError for a
\* value that is not a number.
RaisesTypeError(d) == \E col \in VALID_COLUMNS : Get(d, col).t # "int"

\* Every positive integer field of the payload, whether or not VALID_COLUMNS
\* has it (what the mutant of UpdateData merges).
IncrementsAllFields(d) ==
    [col \in {c \in DOMAIN d.fields : d.fields[c].t = "int" /\ d.fields[c].v > 0}
        |-> d.fields[col].v]

\* Mutant of Increments: the filter of events.py:155 keeps zeros (v >= 0).
IncrementsKeepZeros(d) ==
    [col \in {c \in VALID_COLUMNS : Get(d, c).t = "int" /\ Get(d, c).v >= 0}
        |-> Get(d, col).v]

\* events.py:154-155: {col: data.get(col, 0) for col in VALID_COLUMNS}, zeros
\* and negatives skipped.
Increments(d) ==
    [col \in {c \in VALID_COLUMNS : Get(d, c).t = "int" /\ Get(d, c).v > 0}
        |-> Get(d, col).v]

\* increments.get(col, 0)
IncGet(incs, col) == IF col \in DOMAIN incs THEN incs[col] ELSE 0

\* Default of a violation column that an insert does not set; every reader
\* uses row.get(col, 0).
ColDefault == 0

\* row.get(col, 0) on a stored row or a local copy of one.
RowGet(r, col) == IF col \in DOMAIN r.cols THEN r.cols[col] ELSE ColDefault

VARIABLES
    store,      \* table test_results: a set of rows
    hasUniq,    \* the table has UNIQUE (candidate_email, question_set_id)
    nextId,     \* next fresh uuid
    clock,      \* the UTC second of the last manual-<time> question_set_id stored
    pc,         \* pc[p]: where handler p is
    data,       \* data[p]: the request handler p works on
    rec,        \* rec[p]: existing_record / row, the handler's local copy
    out,        \* violation_update messages emitted by the step just taken
    log,        \* the line printed by the step just taken ("" when none)
    nreq,       \* requests received so far
    store0,     \* history: the table when the run began
    sumByRec,   \* history: per row id, the increments of the events merged into it
    sumByKey,   \* history: per Session Key, the increments of the events accepted
    seenIds     \* history: <<Session Key, event_id>> of the events merged

vars == <<store, hasUniq, clock, nextId, pc, data, rec, out, log, nreq, store0, sumByRec,
          sumByKey, seenIds>>

NoData == [kind |-> "none"]
NoRec == [id |-> 0]

ZeroCols == [col \in VALID_COLUMNS |-> 0]

\* Session Key of a request or of a row: question_set_id plus candidate_id,
\* or candidate_email when there is no candidate_id.
KeyOf(x) ==
    <<x.question_set_id,
      IF x.candidate_id # None THEN x.candidate_id ELSE x.candidate_email>>

\* PostgREST .eq(column, value): a NULL column equals nothing, and a filter on
\* None matches no row.
EqF(colval, v) == v # None /\ colval # None /\ colval = v

----------------------------------------------------------------------------
\* Requests.

Event(qs, cid, email, eid, fields) ==
    [kind |-> "event", question_set_id |-> qs, candidate_id |-> cid,
     candidate_email |-> email, event_id |-> eid, exam_id |-> None,
     score |-> <<>>, fields |-> fields]

Submit(qs, cid, email, exam, score, fields) ==
    [kind |-> "submit", question_set_id |-> qs, candidate_id |-> cid,
     candidate_email |-> email, event_id |-> None, exam_id |-> exam,
     score |-> score, fields |-> fields]

Manual(qs, cid, email, fields) ==
    [kind |-> "manual", question_set_id |-> qs, candidate_id |-> cid,
     candidate_email |-> email, event_id |-> None, exam_id |-> None,
     score |-> <<>>, fields |-> fields]

F1(c, n) == [x \in {c} |-> IntV(n)]

\* events.py:29-37
LEGACY_MAP ==
    [n \in {"tab_switch", "inactivity", "text_selection", "copy", "paste",
            "right_click", "face_not_visible"} |->
        CASE n = "tab_switch" -> "tab_switches"
          [] n = "inactivity" -> "inactivities"
          [] n = "text_selection" -> "text_selections"
          [] n = "copy" -> "copies"
          [] n = "paste" -> "pastes"
          [] n = "right_click" -> "right_clicks"
          [] n = "face_not_visible" -> "face_not_visible"]

\* A payload of the legacy shape: one field that names the violation, no
\* count fields.
Legacy(n) == [x \in {"violation_type"} |-> [t |-> "str", v |-> 0, name |-> n]]
F2(c1, v1, c2, v2) == [x \in {c1, c2} |-> IF x = c1 THEN v1 ELSE v2]

\* Payloads of the concurrent runs (scenario B of the specification).
ConcPayloads == {F1("tab_switches", 1), F1("face_not_visible", 1)}

ConcEvents ==
    {Event("q1", id[1], id[2], None, f) :
        id \in {<<"c1", None>>, <<"c1", "e1">>, <<None, "e1">>},
        f \in ConcPayloads}

\* Payloads of the one-at-a-time runs: plain increments (scenario A), a field
\* outside the schema, a value that is no integer, a negative value, a zero.
SeqPayloads ==
    {F1("tab_switches", 1),
     F2("tab_switches", IntV(2), "inactivities", IntV(1)),
     F2("tab_switches", IntV(1), "screenshot", IntV(1)),
     F2("copies", IntV(1), "tab_switches", StrV),
     F2("copies", IntV(1), "tab_switches", IntV(-1)),
     F1("tab_switches", 0)}

\* Payloads with no positive recognized column: legacy payloads and a
\* negative count.
EmptyPayloads == {Legacy("tab_switch"), Legacy("copy"), F1("tab_switches", -1)}

SeqEvents ==
    {Event(qs, cid, email, eid, f) :
        qs \in {None, "q1"}, cid \in {None, "c1"}, email \in {None, "e1"},
        eid \in {None, "ev1"}, f \in SeqPayloads}
    \cup {Event("q1", "c1", "e1", None, f) : f \in EmptyPayloads}

SeqSubmits ==
    {Submit("q1", cid, "e1", exam, <<>>, f) :
        cid \in {None, "c1"}, exam \in {"x1", "x2"},
        f \in {F1("tab_switches", 1), F1("tab_switches", -1)}}
    \cup {Submit("q1", None, None, "x1", <<>>, F1("tab_switches", 1)),
          Submit("q1", "c1", "e1", None, <<7>>, F1("tab_switches", 0)),
          Submit("q1", "c1", "e1", "x1", <<7>>, [x \in {"tab_switches"} |-> StrV])}

SeqManuals ==
    {Manual(qs, None, email, F1("tab_switches", 1)) :
        qs \in {Absent, None, "q1"}, email \in {Absent, None, "e1"}}
    \cup {Manual("q1", None, "e1", F1("tab_switches", -1))}

SeqRequests == SeqEvents \cup SeqSubmits \cup SeqManuals

\* Requests of the runs in which handlers of the three kinds overlap: every
\* count is positive.
MixRequests ==
    ConcEvents
    \cup {Submit("q1", "c1", "e1", "x1", <<>>, F1("tab_switches", 1)),
          Manual("q1", None, "e1", F1("tab_switches", 1))}

----------------------------------------------------------------------------
\* events.py:82-107
NewRecord(id, d) ==
    [id |-> id, question_set_id |-> d.question_set_id,
     candidate_id |-> d.candidate_id, candidate_email |-> d.candidate_email,
     exam_id |-> None, status |-> "Pending", score |-> 0,
     raw_feedback |-> <<>>, cols |-> ZeroCols]

\* A row the table can hold when the run begins: one that an earlier event
\* created and merged one tab switch into.
Row0 ==
    [NewRecord(1, Event("q1", "c1", "e1", None, <<>>))
        EXCEPT !.cols = [ZeroCols EXCEPT !["tab_switches"] = 1]]

\* app.py:116-117
NonZeroViolations(d) == Increments(d)

\* app.py:140-143, 164-166: "\n[VIOLATIONS] col=val, ..." is appended when
\* there is a non-zero violation.
WithSummary(feedback, d) ==
    IF DOMAIN NonZeroViolations(d) # {}
    THEN Append(feedback, [tag |-> "VIOLATIONS", items |-> NonZeroViolations(d)])
    ELSE feedback

\* app.py:169-188: the row /api/test/submit inserts.
SubmitPayload(id, d) ==
    [id |-> id, question_set_id |-> d.question_set_id,
     candidate_id |-> d.candidate_id, candidate_email |-> d.candidate_email,
     exam_id |-> d.exam_id, status |-> "Pending",
     score |-> IF d.score # <<>> THEN d.score[1] ELSE 0,
     raw_feedback |-> WithSummary(<<>>, d), cols |-> NonZeroViolations(d)]

\* Another row the table can hold when the run begins: one that an earlier
\* /api/test/submit with one tab switch created.
RowS == SubmitPayload(1, Submit("q1", "c1", "e1", "x1", <<>>, F1("tab_switches", 1)))

Init ==
    /\ store \in {{}, {Row0}, {RowS}}
    /\ hasUniq \in BOOLEAN
    /\ nextId = 2
    /\ clock = 0
    /\ pc = [p \in Procs |-> "idle"]
    /\ data = [p \in Procs |-> NoData]
    /\ rec = [p \in Procs |-> NoRec]
    /\ out = <<>>
    /\ log = ""
    /\ nreq = 0
    /\ store0 = store
    /\ sumByRec = <<>>
    /\ sumByKey = <<>>
    /\ seenIds = {}

\* The handler returns: its locals are gone.
Finish(p) ==
    /\ pc' = [pc EXCEPT ![p] = "idle"]
    /\ data' = [data EXCEPT ![p] = NoData]
    /\ rec' = [rec EXCEPT ![p] = NoRec]

Goto(p, l) == pc' = [pc EXCEPT ![p] = l]

\* f with incs added at key k (history bookkeeping).
AddAt(f, k, incs) ==
    [x \in DOMAIN f \cup {k} |->
        IF x = k
        THEN [col \in VALID_COLUMNS |->
                (IF k \in DOMAIN f THEN f[k][col] ELSE 0) + IncGet(incs, col)]
        ELSE f[x]]

\* The transport hands a request to a free handler.
Arrive(p, reqs) ==
    /\ pc[p] = "idle"
    /\ nreq < MaxRequests
    /\ \E d \in reqs : data' = [data EXCEPT ![p] = d]
    /\ Goto(p, "recv")
    /\ nreq' = nreq + 1
    /\ out' = <<>>
    /\ log' = ""
    /\ UNCHANGED <<store, hasUniq, clock, nextId, rec, store0, sumByRec, sumByKey, seenIds>>

\* Mutant of MissingKey: only question_set_id is required.
MissingKeyOnlyQs(d) == d.question_set_id = None

\* events.py:145-151
MissingKey(d) ==
    \/ d.question_set_id = None
    \/ (d.candidate_email = None /\ d.candidate_id = None)

\* events.py:139-158, 205-208: the event is dropped before the store is touched.
Dropped(d) ==
    \/ MissingKey(d)
    \/ RaisesTypeError(d)
    \/ DOMAIN Increments(d) = {}

\* The line the handler prints when it drops the event (events.py:146, 150,
\* 206, 157).
DropLine(d) ==
    IF d.question_set_id = None THEN "Missing question_set_id"
    ELSE IF MissingKey(d) THEN "Missing both candidate_email and candidate_id"
    ELSE IF RaisesTypeError(d) THEN "Failed to process suspicious event"
    ELSE "No valid violations to process"

\* events.py:51-56
SelectById(d) ==
    {r \in store : /\ EqF(r.question_set_id, d.question_set_id)
                   /\ EqF(r.candidate_id, d.candidate_id)}

\* events.py:63-68
SelectByEmail(d) ==
    {r \in store : /\ EqF(r.question_set_id, d.question_set_id)
                   /\ EqF(r.candidate_email, d.candidate_email)}

\* events.py:138-59: validation, then the lookup by candidate_id.
EventLookup(p) ==
    /\ pc[p] = "recv"
    /\ data[p].kind = "event"
    /\ out' = <<>>
    /\ LET d == data[p] IN
       IF Dropped(d)
       THEN /\ Finish(p)
            /\ log' = DropLine(d)
            /\ UNCHANGED sumByKey
       ELSE /\ sumByKey' = AddAt(sumByKey, KeyOf(d), Increments(d))
            /\ log' = ""
            /\ UNCHANGED data
            /\ IF SelectById(d) # {}
               THEN \E r \in SelectById(d) :
                        /\ rec' = [rec EXCEPT ![p] = r]
                        /\ Goto(p, "update")
               ELSE /\ UNCHANGED rec
                    /\ Goto(p, IF d.candidate_email # None
                               THEN "find_email" ELSE "insert")
    /\ UNCHANGED <<store, hasUniq, clock, nextId, nreq, store0, sumByRec, seenIds>>

\* events.py:62-79: the lookup by candidate_email.
FindByEmail(p) ==
    /\ pc[p] = "find_email"
    /\ out' = <<>>
    /\ log' = ""
    /\ LET d == data[p] IN
       IF SelectByEmail(d) # {}
       THEN \E r \in SelectByEmail(d) :
                /\ rec' = [rec EXCEPT ![p] = r]
                /\ Goto(p, IF r.candidate_id = None /\ d.candidate_id # None
                           THEN "backfill" ELSE "update")
       ELSE /\ UNCHANGED rec
            /\ Goto(p, "insert")
    /\ UNCHANGED <<store, hasUniq, clock, nextId, data, nreq, store0, sumByRec,
                   sumByKey, seenIds>>

\* events.py:73-78: candidate_id is written to the row found by email.
Backfill(p) ==
    /\ pc[p] = "backfill"
    /\ out' = <<>>
    /\ log' = ""
    /\ store' = {IF r.id = rec[p].id
                 THEN [r EXCEPT !.candidate_id = data[p].candidate_id]
                 ELSE r : r \in store}
    /\ rec' = [rec EXCEPT ![p].candidate_id = data[p].candidate_id]
    /\ Goto(p, "update")
    /\ UNCHANGED <<hasUniq, clock, nextId, data, nreq, store0, sumByRec, sumByKey, seenIds>>

\* The table's unique constraint, when it has one, refuses a second row with
\* the same non-NULL (candidate_email, question_set_id).
Conflicts(row) ==
    /\ hasUniq
    /\ \E r \in store : /\ EqF(r.candidate_email, row.candidate_email)
                        /\ EqF(r.question_set_id, row.question_set_id)

\* events.py:82-114: insert of the new record.
Insert(p) ==
    /\ pc[p] = "insert"
    /\ out' = <<>>
    /\ LET new == NewRecord(nextId, data[p]) IN
       IF Conflicts(new)
       THEN /\ Goto(p, "retry")
            /\ log' = "Error creating new record, attempting to find existing"
            /\ UNCHANGED <<store, rec>>
       ELSE /\ log' = ""
            /\ store' = store \cup {new}
            /\ rec' = [rec EXCEPT ![p] = new]
            /\ Goto(p, "update")
    /\ nextId' = nextId + 1
    /\ UNCHANGED <<hasUniq, clock, data, nreq, store0, sumByRec, sumByKey, seenIds>>

\* events.py:115-125: after a refused insert the lookup by candidate_id is
\* repeated; with no row the exception reaches the handler's except clause.
Retry(p) ==
    /\ pc[p] = "retry"
    /\ out' = <<>>
    /\ IF SelectById(data[p]) # {}
       THEN \E r \in SelectById(data[p]) :
                /\ rec' = [rec EXCEPT ![p] = r]
                /\ Goto(p, "update")
                /\ log' = ""
                /\ UNCHANGED data
       ELSE /\ Finish(p)
            /\ log' = "Failed to process suspicious event"
    /\ UNCHANGED <<store, hasUniq, clock, nextId, nreq, store0, sumByRec, sumByKey, seenIds>>

\* Mutant of MergedViolations: an incremented column is set to the increment
\* instead of being raised by it.
MergedOverwrite(r, incs) ==
    [col \in VALID_COLUMNS |->
        IF col \in DOMAIN incs THEN incs[col] ELSE RowGet(r, col)]

\* events.py:166-169
MergedViolations(r, incs) ==
    [col \in VALID_COLUMNS |-> RowGet(r, col) + IncGet(incs, col)]

\* The columns of a row after update(upd): the columns named in upd are
\* overwritten, the others keep their value.
WriteCols(cols, upd) ==
    [col \in DOMAIN cols \cup DOMAIN upd |->
        IF col \in DOMAIN upd THEN upd[col] ELSE cols[col]]

\* Mutant of UpdateData: every numeric field of the payload is merged and
\* written, whether or not the schema has it.
UpdateDataAllFields(r, d) ==
    [col \in VALID_COLUMNS \cup DOMAIN IncrementsAllFields(d) |->
        RowGet(r, col) + IncGet(IncrementsAllFields(d), col)]

\* events.py:153-155, 165-180: the counter columns of update_data
\* (raw_feedback is commented out of it, updated_at is not modelled).
UpdateData(r, d) == MergedViolations(r, Increments(d))

\* Mutant of Update: the update is filtered by question_set_id instead of id.
UpdateByQuestionSet(p) ==
    /\ pc[p] = "update"
    /\ out' = <<>>
    /\ log' = ""
    /\ LET upd == UpdateData(rec[p], data[p]) IN
       store' = {IF r.question_set_id = rec[p].question_set_id
                 THEN [r EXCEPT !.cols = WriteCols(r.cols, upd)]
                 ELSE r : r \in store}
    /\ sumByRec' = AddAt(sumByRec, rec[p].id, Increments(data[p]))
    /\ seenIds' = IF data[p].event_id # None
                  THEN seenIds \cup {<<KeyOf(data[p]), data[p].event_id>>}
                  ELSE seenIds
    /\ Goto(p, "emit1")
    /\ UNCHANGED <<hasUniq, clock, nextId, data, rec, nreq, store0, sumByKey>>

\* events.py:176-182: update(update_data).eq("id", existing_record["id"])
Update(p) ==
    /\ pc[p] = "update"
    /\ out' = <<>>
    /\ log' = ""
    /\ LET upd == UpdateData(rec[p], data[p]) IN
       store' = {IF r.id = rec[p].id
                 THEN [r EXCEPT !.cols = WriteCols(r.cols, upd)]
                 ELSE r : r \in store}
    /\ sumByRec' = AddAt(sumByRec, rec[p].id, Increments(data[p]))
    /\ seenIds' = IF data[p].event_id # None
                  THEN seenIds \cup {<<KeyOf(data[p]), data[p].event_id>>}
                  ELSE seenIds
    /\ Goto(p, "emit1")
    /\ UNCHANGED <<hasUniq, clock, nextId, data, rec, nreq, store0, sumByKey>>

\* events.py:182, 205-208: execute() raises because the store refuses the
\* write; the except clause prints the error and the handler returns. There
\* is no second attempt.
UpdateFails(p) ==
    /\ pc[p] = "update"
    /\ out' = <<>>
    /\ log' = "Failed to process suspicious event: update"
    /\ Finish(p)
    /\ UNCHANGED <<store, hasUniq, clock, nextId, nreq, store0, sumByRec, sumByKey, seenIds>>

Message(d, counts) ==
    [candidate_email |-> d.candidate_email, candidate_id |-> d.candidate_id,
     question_set_id |-> d.question_set_id, counts |-> counts]

\* events.py:184-193: payload = {**existing_record, **update_data}
Emit1(p) ==
    /\ pc[p] = "emit1"
    /\ out' = <<Message(data[p],
                        [col \in VALID_COLUMNS |->
                            IF col \in DOMAIN UpdateData(rec[p], data[p])
                            THEN UpdateData(rec[p], data[p])[col]
                            ELSE RowGet(rec[p], col)])>>
    /\ log' = "Violation batch saved"
    /\ Goto(p, "emit2")
    /\ UNCHANGED <<store, hasUniq, clock, nextId, data, rec, nreq, store0, sumByRec,
                   sumByKey, seenIds>>

\* events.py:197-204: the second emit sends data.get(col, 0).
Emit2(p) ==
    /\ pc[p] = "emit2"
    /\ out' = <<Message(data[p], [col \in VALID_COLUMNS |-> Get(data[p], col).v])>>
    /\ log' = "Live violation event (not saved)"
    /\ Finish(p)
    /\ UNCHANGED <<store, hasUniq, clock, nextId, nreq, store0, sumByRec, sumByKey, seenIds>>

\* Mutant of EmitFails: the failed emit sends the handler back to the store
\* update.
EmitFailsRetries(p) ==
    /\ pc[p] \in {"emit1", "emit2"}
    /\ out' = <<>>
    /\ log' = "Failed to process suspicious event: emit"
    /\ Goto(p, "update")
    /\ UNCHANGED <<store, hasUniq, clock, nextId, data, rec, nreq, store0, sumByRec,
                   sumByKey, seenIds>>

\* events.py:188, 198, 205-208: socketio.emit raises; both emits are inside
\* the try block, so the except clause prints the error and the handler
\* returns. The update of line 182 has been executed and stays.
EmitFails(p) ==
    /\ pc[p] \in {"emit1", "emit2"}
    /\ out' = <<>>
    /\ log' = "Failed to process suspicious event: emit"
    /\ Finish(p)
    /\ UNCHANGED <<store, hasUniq, clock, nextId, nreq, store0, sumByRec, sumByKey, seenIds>>

\* The steps of a handler that runs alone: the retry of events.py:115-125
\* needs an insert refused for a row that the lookups just before did not
\* find, which takes another handler in between.
SeqEventStep(p) ==
    \/ EventLookup(p)
    \/ FindByEmail(p)
    \/ Backfill(p)
    \/ Insert(p)
    \/ Update(p)
    \/ Emit1(p)
    \/ Emit2(p)

EventStep(p) ==
    \/ EventLookup(p)
    \/ FindByEmail(p)
    \/ Backfill(p)
    \/ Insert(p)
    \/ Retry(p)
    \/ Update(p)
    \/ Emit1(p)
    \/ Emit2(p)

\* app.py:119-126
SubmitRows(d) ==
    {r \in store : /\ EqF(r.question_set_id, d.question_set_id)
                   /\ EqF(r.candidate_email, d.candidate_email)
                   /\ EqF(r.exam_id, d.exam_id)}

\* app.py:192-196
SubmitMessage(d, payload) ==
    [candidate_email |-> d.candidate_email, candidate_id |-> None,
     question_set_id |-> d.question_set_id,
     counts |-> [col \in VALID_COLUMNS |-> RowGet(payload, col)]]

\* app.py:108-126: validation (400), the filter of line 117 (TypeError, 500),
\* then the lookup of the row.
SubmitSelect(p) ==
    /\ pc[p] = "recv"
    /\ data[p].kind = "submit"
    /\ out' = <<>>
    /\ LET d == data[p] IN
       IF d.question_set_id = None \/ d.candidate_email = None \/ RaisesTypeError(d)
       THEN /\ Finish(p)
            /\ log' = "submit: error"
       ELSE /\ log' = ""
            /\ UNCHANGED data
            /\ IF SubmitRows(d) # {}
               THEN \E r \in SubmitRows(d) :
                        /\ rec' = [rec EXCEPT ![p] = r]
                        /\ Goto(p, "s_update")
               ELSE /\ UNCHANGED rec
                    /\ Goto(p, "s_insert")
    /\ UNCHANGED <<store, hasUniq, clock, nextId, nreq, store0, sumByRec, sumByKey, seenIds>>

\* app.py:128-158: the row is rewritten from the copy read before; payload =
\* {**row, **update_data} stays with the handler for the emit.
SubmitUpdate(p) ==
    /\ pc[p] = "s_update"
    /\ LET d == data[p]
           row == rec[p]
           merged == [col \in VALID_COLUMNS |-> RowGet(row, col) + Get(d, col).v]
           upd == [score |-> IF d.score # <<>> THEN d.score[1] ELSE row.score,
                   raw_feedback |-> WithSummary(row.raw_feedback, d)]
       IN /\ store' = {IF r.id = row.id
                       THEN [r EXCEPT !.score = upd.score,
                                      !.raw_feedback = upd.raw_feedback,
                                      !.cols = WriteCols(r.cols, merged)]
                       ELSE r : r \in store}
          /\ rec' = [rec EXCEPT ![p] = [row EXCEPT !.score = upd.score,
                                                   !.raw_feedback = upd.raw_feedback,
                                                   !.cols = WriteCols(row.cols, merged)]]
    /\ out' = <<>>
    /\ log' = ""
    /\ Goto(p, "s_emit")
    /\ UNCHANGED <<hasUniq, clock, nextId, data, nreq, store0, sumByRec, sumByKey, seenIds>>

\* app.py:160-189: a new row; a refused insert ends in the except clause (500)
\* with nothing emitted.
SubmitInsert(p) ==
    /\ pc[p] = "s_insert"
    /\ out' = <<>>
    /\ LET d == data[p]
           payload == SubmitPayload(nextId, d)
       IN IF Conflicts(payload)
          THEN /\ log' = "submit: error"
               /\ Finish(p)
               /\ UNCHANGED store
          ELSE /\ store' = store \cup {payload}
               /\ log' = ""
               /\ rec' = [rec EXCEPT ![p] = payload]
               /\ Goto(p, "s_emit")
               /\ UNCHANGED data
    /\ nextId' = nextId + 1
    /\ UNCHANGED <<hasUniq, clock, nreq, store0, sumByRec, sumByKey, seenIds>>

\* app.py:191-201: the violation_update built from payload, then the answer
\* 200.
SubmitEmit(p) ==
    /\ pc[p] = "s_emit"
    /\ out' = <<SubmitMessage(data[p], rec[p])>>
    /\ log' = "submit: success"
    /\ Finish(p)
    /\ UNCHANGED <<store, hasUniq, clock, nextId, nreq, store0, sumByRec, sumByKey, seenIds>>

\* app.py:192, 203-204: socketio.emit raises; the row is written, nothing is
\* emitted and the answer is 500.
SubmitEmitFails(p) ==
    /\ pc[p] = "s_emit"
    /\ out' = <<>>
    /\ log' = "submit: error"
    /\ Finish(p)
    /\ UNCHANGED <<store, hasUniq, clock, nextId, nreq, store0, sumByRec, sumByKey, seenIds>>

\* app.py:221: strftime('%Y%m%d-%H%M%S') of the UTC second t.
Stamp(t) == "manual-" \o ToString(t)

\* The seconds in which a manual request can read the time: the second of
\* the last stamp stored or a later one (seconds are counted from the first).
Seconds == IF clock = 0 THEN {1} ELSE {clock, clock + 1}

\* app.py:221-222: data.get(key, default); a JSON null stays None.
ManualQs(d, t) == IF d.question_set_id = Absent THEN Stamp(t) ELSE d.question_set_id
ManualEmail(d) ==
    IF d.candidate_email = Absent THEN "manual@example.com" ELSE d.candidate_email

\* app.py:212-257: upsert(params, on_conflict=[candidate_email, question_set_id]).
\* Without the unique constraint the store refuses ON CONFLICT; with it, a row
\* with the same non-NULL pair is overwritten column by column, its id
\* included, and a NULL in the pair conflicts with nothing.
ManualUpsert(p) ==
    /\ pc[p] = "recv"
    /\ data[p].kind = "manual"
    /\ out' = <<>>
    /\ \E t \in (IF data[p].question_set_id = Absent THEN Seconds ELSE {clock}) :
        LET d == data[p]
            params ==
               [id |-> nextId, question_set_id |-> ManualQs(d, t),
                candidate_id |-> d.candidate_id,
                candidate_email |-> ManualEmail(d), exam_id |-> None,
                status |-> "Manual Entry", score |-> 0,
                raw_feedback |-> <<[tag |-> "MANUAL", items |-> Increments(d)]>>,
                cols |-> [col \in VALID_COLUMNS |-> Get(d, col).v]]
            hit == {r \in store :
                       /\ EqF(r.candidate_email, params.candidate_email)
                       /\ EqF(r.question_set_id, params.question_set_id)}
        IN IF RaisesTypeError(d) \/ ~hasUniq
           THEN /\ log' = "Manual violation insert failed"
                /\ UNCHANGED <<store, clock>>
           ELSE /\ log' = "Manual violation record created successfully"
                /\ clock' = t
                /\ store' = (store \ hit)
                         \cup (IF hit = {} THEN {params}
                               ELSE {[params EXCEPT !.exam_id = r.exam_id] : r \in hit})
    /\ nextId' = nextId + 1
    /\ Finish(p)
    /\ UNCHANGED <<hasUniq, nreq, store0, sumByRec, sumByKey, seenIds>>

SubmitStep(p) ==
    \/ SubmitSelect(p)
    \/ SubmitUpdate(p)
    \/ SubmitInsert(p)
    \/ SubmitEmit(p)

\* Concurrent suspicious_event handlers.
Next ==
    \/ \E p \in Procs : Arrive(p, ConcEvents)
    \/ \E p \in Procs : EventStep(p)

Spec == Init /\ [][Next]_vars

AllIdle == \A p \in Procs : pc[p] = "idle"

\* Requests of every kind, handled one at a time; the update and the emits of
\* an event handler and the emit of a submit can fail.
SeqNext ==
    \/ AllIdle /\ Arrive(1, SeqRequests)
    \/ \E p \in Procs : SeqEventStep(p)
    \/ \E p \in Procs : UpdateFails(p)
    \/ \E p \in Procs : EmitFails(p)
    \/ \E p \in Procs : SubmitStep(p)
    \/ \E p \in Procs : SubmitEmitFails(p)
    \/ \E p \in Procs : ManualUpsert(p)

SeqSpec == Init /\ [][SeqNext]_vars

\* Handlers of the three kinds overlapping, every store call and every emit
\* succeeding.
MixNext ==
    \/ \E p \in Procs : Arrive(p, MixRequests)
    \/ \E p \in Procs : EventStep(p)
    \/ \E p \in Procs : SubmitStep(p)
    \/ \E p \in Procs : ManualUpsert(p)

MixSpec == Init /\ [][MixNext]_vars

\* suspicious_event events only, handled one at a time, every store call and
\* every emit succeeding.
EventsNext ==
    \/ AllIdle /\ Arrive(1, SeqEvents)
    \/ \E p \in Procs : SeqEventStep(p)

EventsSpec == Init /\ [][EventsNext]_vars

----------------------------------------------------------------------------
\* What the claims speak of.

\* The positive integer the event carries for a recognized column, else 0.
Delta(d, col) ==
    IF col \in DOMAIN d.fields /\ d.fields[col].t = "int" /\ d.fields[col].v > 0
    THEN d.fields[col].v ELSE 0

\* The event has question_set_id and at least one candidate identifier.
CompleteKey(d) ==
    /\ d.question_set_id # None
    /\ (d.candidate_id # None \/ d.candidate_email # None)

\* Handler p holds a suspicious_event it has not looked at yet.
AtIntake(p) == pc[p] = "recv" /\ data[p].kind = "event"

\* Handler p takes the step that writes the merge to the store.
Merges(p) == pc[p] = "update" /\ pc'[p] = "emit1"

\* The counters and audit trails of the rows, by row id.
Tallies(st) == {<<r.id, [col \in VALID_COLUMNS |-> RowGet(r, col)], r.raw_feedback>> : r \in st}

\* C1: accumulation correctness. Once every concurrent suspicious_event
\* handler has returned, each counter of a row that existed before the events
\* equals its value before them plus the sum of the increments of the events
\* merged into that row.
C1_AccumulationCorrect ==
    AllIdle =>
        \A r0 \in store0 : \A r \in store :
            r.id = r0.id =>
                \A col \in VALID_COLUMNS :
                    RowGet(r, col) =
                        RowGet(r0, col)
                        + (IF r.id \in DOMAIN sumByRec THEN sumByRec[r.id][col] ELSE 0)

\* C2: idempotent creation. When the table began empty and every event
\* accepted so far carried one and the same Session Key, then once all
\* handlers have returned exactly one row holds that key and its counters
\* are the sums of the events' increments.
C2_IdempotentCreation ==
    (AllIdle /\ store0 = {} /\ Cardinality(DOMAIN sumByKey) = 1) =>
        \A k \in DOMAIN sumByKey :
            /\ Cardinality({r \in store : KeyOf(r) = k}) = 1
            /\ \A r \in store :
                  KeyOf(r) = k =>
                      \A col \in VALID_COLUMNS : RowGet(r, col) = sumByKey[k][col]

\* C3: Session Key uniqueness. In every state reached by events, submits and
\* manual inserts handled one at a time, no two rows share a Session Key.
C3_SessionKeyUnique ==
    \A r1 \in store : \A r2 \in store : KeyOf(r1) = KeyOf(r2) => r1 = r2

\* C4: deduplication. A handler working on an event whose event_id was
\* already merged for the same Session Key changes no counter and no audit
\* trail of any row.
C4_Deduplication ==
    [][\A p \in Procs :
          (/\ data[p].kind = "event"
           /\ data[p].event_id # None
           /\ <<KeyOf(data[p]), data[p].event_id>> \in seenIds
           /\ pc'[p] # pc[p])
          => Tallies(store) \subseteq Tallies(store')]_vars

\* The specification asks for a retention cap and names no value; the code
\* has none. The cap is taken as the number of requests a run receives.
RetentionCap == MaxRequests

\* C5: bounded audit trail. No row's raw_feedback ever holds more than the
\* cap's number of batch entries.
C5_BoundedAuditTrail ==
    \A r \in store : Len(r.raw_feedback) <= RetentionCap

\* C6: incomplete Session Key rejection. The step a handler takes on an
\* event without question_set_id, or without both candidate_id and
\* candidate_email, ends the handler, leaves the table as it was and emits no
\* violation_update.
C6_IncompleteKeyDropped ==
    [][\A p \in Procs :
          (AtIntake(p) /\ ~CompleteKey(data[p]) /\ pc'[p] # pc[p])
          => (pc'[p] = "idle" /\ store' = store /\ out' = <<>>)]_vars

\* The case of C6: an event without its Session Key has just been dropped.
C6_Witness ==
    /\ log \in {"Missing question_set_id",
                "Missing both candidate_email and candidate_id"}
    /\ nreq > 0
    /\ AllIdle

\* The event carries a field that VALID_COLUMNS does not have.
HasUnknownField(d) == \E f \in DOMAIN d.fields : f \notin VALID_COLUMNS

\* C7: unknown-category drop. An event with a complete key, a field outside
\* VALID_COLUMNS and a positive recognized increment is not dropped, and its
\* merge leaves the row with the recognized columns only, each raised by the
\* event's increment for it.
C7_UnknownCategoryDropped ==
    [][\A p \in Procs :
          /\ (/\ AtIntake(p) /\ CompleteKey(data[p]) /\ HasUnknownField(data[p])
               /\ \A f \in DOMAIN data[p].fields : data[p].fields[f].t = "int"
               /\ \E col \in VALID_COLUMNS : Delta(data[p], col) > 0
               /\ pc'[p] # pc[p])
              => pc'[p] # "idle"
          /\ (Merges(p) /\ HasUnknownField(data[p]))
              => /\ \E r \in store' : r.id = rec[p].id
                 /\ \A r \in store : \A r2 \in store' :
                       (r.id = rec[p].id /\ r2.id = r.id) =>
                           /\ DOMAIN r2.cols \subseteq VALID_COLUMNS
                           /\ \A col \in VALID_COLUMNS :
                                 RowGet(r2, col) = RowGet(r, col) + Delta(data[p], col)]_vars

\* The case of C7: an event with an unknown field has just been merged into a
\* row that already counted a tab switch.
C7_Witness ==
    \E p \in Procs :
        /\ pc[p] = "emit1"
        /\ HasUnknownField(data[p])
        /\ \E r \in store : r.id = rec[p].id /\ RowGet(r, "tab_switches") >= 2

\* C8: broadcast content. Every violation_update a suspicious_event handler
\* emits carries the event's Session Key and, for every recognized column,
\* the total stored in the session's row.
C8_BroadcastTotals ==
    [][\A p \in Procs :
          (pc[p] \in {"emit1", "emit2"} /\ pc'[p] # pc[p]) =>
              \A i \in 1..Len(out') :
                  /\ out'[i].question_set_id = data[p].question_set_id
                  /\ out'[i].candidate_id = data[p].candidate_id
                  /\ out'[i].candidate_email = data[p].candidate_email
                  /\ \E r \in store :
                        /\ r.id = rec[p].id
                        /\ \A col \in VALID_COLUMNS :
                              out'[i].counts[col] = RowGet(r, col)]_vars

\* C9: zero-increment categories are never written. The merge of an event
\* leaves the stored counter of every column the event does not increment as
\* it was in the store.
C9_ZeroIncrementUntouched ==
    [][\A p \in Procs :
          Merges(p) =>
              \A r \in store : \A r2 \in store' :
                  r2.id = r.id =>
                      \A col \in VALID_COLUMNS :
                          Delta(data[p], col) = 0 => RowGet(r2, col) = RowGet(r, col)]_vars

\* C10: per-field coercion. An event with a complete key and a positive
\* integer in some recognized column is not dropped, whatever its other
\* fields hold (a negative or non-integer value counts as 0), and its merge
\* raises each column by the event's positive integer for it.
C10_PerFieldCoercion ==
    [][\A p \in Procs :
          /\ (/\ AtIntake(p) /\ CompleteKey(data[p])
               /\ \E col \in VALID_COLUMNS : Delta(data[p], col) > 0
               /\ pc'[p] # pc[p])
              => pc'[p] # "idle"
          /\ Merges(p)
              => \A r \in store : \A r2 \in store' :
                    (r.id = rec[p].id /\ r2.id = r.id) =>
                        \A col \in VALID_COLUMNS :
                            RowGet(r2, col) = RowGet(r, col) + Delta(data[p], col)]_vars

\* The event is of the legacy shape: it names one violation type and has no
\* count field.
IsLegacy(d) ==
    /\ DOMAIN d.fields = {"violation_type"}
    /\ d.fields["violation_type"].name \in DOMAIN LEGACY_MAP

\* C11: legacy payload support. An event of the legacy shape with a complete
\* key is not dropped, and its merge raises the column LEGACY_MAP gives for
\* the named violation by exactly 1 and leaves the other columns as they were.
C11_LegacyPayload ==
    [][\A p \in Procs :
          /\ (AtIntake(p) /\ CompleteKey(data[p]) /\ IsLegacy(data[p])
               /\ pc'[p] # pc[p])
              => pc'[p] # "idle"
          /\ (Merges(p) /\ IsLegacy(data[p]))
              => \A r \in store : \A r2 \in store' :
                    (r.id = rec[p].id /\ r2.id = r.id) =>
                        \A col \in VALID_COLUMNS :
                            RowGet(r2, col) =
                                RowGet(r, col)
                                + (IF col = LEGACY_MAP[data[p].fields["violation_type"].name]
                                   THEN 1 ELSE 0)]_vars

\* The store update of handler p fails: the handler leaves "update" without
\* merging.
UpdateFailed(p) == pc[p] = "update" /\ pc'[p] # pc[p] /\ ~Merges(p)

\* C12: store-failure handling. When the store update of an event fails, the
\* handler does not give the event up at once but goes on to a second
\* attempt, and the failed update leaves every row as it was. (A handler at
\* "update" is at its first attempt: the handler has no other position from
\* which it writes the merge.)
C12_StoreFailureRetried ==
    [][\A p \in Procs :
          UpdateFailed(p) => (pc'[p] # "idle" /\ store' = store)]_vars

\* C13: audit entry per merge. The merge of an event appends exactly one
\* entry to the raw_feedback of the row it is merged into, and the entry
\* lists the columns the event increments, each with its increment.
C13_AuditEntryPerMerge ==
    [][\A p \in Procs :
          Merges(p) =>
              \A r \in store : \A r2 \in store' :
                  (r.id = rec[p].id /\ r2.id = r.id) =>
                      /\ Len(r2.raw_feedback) = Len(r.raw_feedback) + 1
                      /\ SubSeq(r2.raw_feedback, 1, Len(r.raw_feedback)) = r.raw_feedback
                      /\ r2.raw_feedback[Len(r2.raw_feedback)].items
                            = [col \in {c \in VALID_COLUMNS : Delta(data[p], c) > 0}
                                  |-> Delta(data[p], col)]]_vars

\* The counter a row had when the run began; 0 for a row created since.
CounterBefore(id, col) ==
    IF \E r0 \in store0 : r0.id = id
    THEN RowGet(CHOOSE r0 \in store0 : r0.id = id, col)
    ELSE 0

\* C14: order independence. When events are handled one at a time and all
\* the events accepted so far carry one Session Key, then once the last
\* handler has returned one row of that session holds, in every column, its
\* value from before the events plus the sum of the events' increments, and
\* every other row holds the counters it had: the result depends on the
\* events, not on the order they came in.
C14_OrderIndependence ==
    (AllIdle /\ Cardinality(DOMAIN sumByKey) = 1) =>
        \A k \in DOMAIN sumByKey :
            \E r \in store :
                /\ r.question_set_id = k[1]
                /\ k[2] \in {r.candidate_id, r.candidate_email}
                /\ \A col \in VALID_COLUMNS :
                      RowGet(r, col) = CounterBefore(r.id, col) + sumByKey[k][col]
                /\ \A r2 \in store \ {r} : \A col \in VALID_COLUMNS :
                      RowGet(r2, col) = CounterBefore(r2.id, col)

\* The case of C14: the events {tab_switches: 1} and {tab_switches: 2,
\* inactivities: 1} of one session have both been handled, in either order,
\* on a table that began empty.
C14_Witness ==
    /\ AllIdle
    /\ store0 = {}
    /\ nreq = 2
    /\ \E k \in DOMAIN sumByKey :
          /\ DOMAIN sumByKey = {k}
          /\ sumByKey[k] = [ZeroCols EXCEPT !["tab_switches"] = 3, !["inactivities"] = 1]
          /\ \E r \in store : /\ RowGet(r, "tab_switches") = 3
                               /\ RowGet(r, "inactivities") = 1

\* C15: secondary-key reconciliation. When an event handler has resolved the
\* record of its event and is about to merge, that record was in the table
\* before or is the only row added for the event, and it holds every
\* identifier the event carries: a candidate_id that was missing on a row
\* found by candidate_email has been filled in, and so has a candidate_email
\* that was missing on a row found by candidate_id.
C15_Reconciliation ==
    \A p \in Procs :
        pc[p] = "update" =>
            \E r \in store :
                /\ r.id = rec[p].id
                /\ data[p].candidate_id # None => r.candidate_id = data[p].candidate_id
                /\ data[p].candidate_email # None => r.candidate_email = data[p].candidate_email

\* C16: creation defaults. A row that find_or_create_test_result or the
\* create branch of /api/test/submit adds to the table has, when it is
\* added, 0 in every recognized column (set by the insert or left to the
\* column's default), the status "Pending" and an empty raw_feedback.
C16_CreationDefaults ==
    [][\A p \in Procs :
          pc[p] \in {"insert", "s_insert"} =>
              \A r \in store' :
                  (\A r0 \in store : r0.id # r.id) =>
                      /\ \A col \in VALID_COLUMNS : RowGet(r, col) = 0
                      /\ r.status = "Pending"
                      /\ r.raw_feedback = <<>>]_vars

\* Every recognized column of the event is an integer that is zero or
\* negative, or is absent.
NothingToApply(d) ==
    \A col \in VALID_COLUMNS :
        col \in DOMAIN d.fields => (d.fields[col].t = "int" /\ d.fields[col].v <= 0)

\* C17: all-zero rejection. The step a handler takes on an event with a
\* complete key and no positive recognized column ends the handler: no row
\* is read into the handler, the table is as it was and no violation_update
\* is emitted.
C17_AllZeroRejected ==
    [][\A p \in Procs :
          (AtIntake(p) /\ CompleteKey(data[p]) /\ NothingToApply(data[p])
           /\ pc'[p] # pc[p])
          => /\ pc'[p] = "idle"
             /\ rec'[p] = NoRec
             /\ store' = store
             /\ nextId' = nextId
             /\ out' = <<>>]_vars

\* The case of C17: an event with a complete key and nothing to apply has
\* just been rejected while the table holds a row.
C17_Witness ==
    /\ log = "No valid violations to process"
    /\ nreq > 0
    /\ AllIdle
    /\ store # {}

\* An emit of handler p fails: the handler leaves "emit1" or "emit2" and no
\* violation_update goes out.
EmitFailed(p) == pc[p] \in {"emit1", "emit2"} /\ pc'[p] # pc[p] /\ out' = <<>>

\* C18: broadcast failure isolation. When an emit of a handler fails after
\* its store update, the row keeps the merged counters (what the handler
\* read plus the event's increments), nothing is merged again, and the
\* handler returns.
C18_BroadcastFailureIsolated ==
    [][\A p \in Procs :
          EmitFailed(p) =>
              /\ store' = store
              /\ sumByRec' = sumByRec
              /\ pc'[p] = "idle"
              /\ \E r \in store' :
                    /\ r.id = rec[p].id
                    /\ \A col \in VALID_COLUMNS :
                          RowGet(r, col) = RowGet(rec[p], col) + Delta(data[p], col)]_vars

\* The case of C18: an emit has just failed and the row of the event holds
\* the merged counters.
C18_Witness ==
    /\ log = "Failed to process suspicious event: emit"
    /\ AllIdle
    /\ \E r \in store :
          /\ r.id \in DOMAIN sumByRec
          /\ \A col \in VALID_COLUMNS :
                RowGet(r, col) = CounterBefore(r.id, col) + sumByRec[r.id][col]
          /\ \E col \in VALID_COLUMNS : sumByRec[r.id][col] > 0

\* Row r2 of the next state is the record that row r is now: the row with
\* r's id, or, when an upsert has replaced r's id, the row with r's
\* candidate_email and question_set_id.
SameRecord(r, r2) ==
    \/ r2.id = r.id
    \/ /\ \A x \in store' : x.id # r.id
       /\ EqF(r2.candidate_email, r.candidate_email)
       /\ EqF(r2.question_set_id, r.question_set_id)

\* C19: counter monotonicity. No step of overlapping suspicious_event,
\* /api/test/submit and /api/violations/manual handlers, whose requests
\* carry positive counts only, lowers a counter of a record.
C19_CountersNeverDecrease ==
    [][\A r \in store : \A r2 \in store' :
          SameRecord(r, r2) =>
              \A col \in VALID_COLUMNS : RowGet(r2, col) >= RowGet(r, col)]_vars

\* Handler p, working on a suspicious_event, takes a step.
EventStepOf(p) == pc[p] # "idle" /\ data[p].kind = "event" /\ pc'[p] # pc[p]

\* Every row that was in the table and is not the record handler p resolved
\* is still there as it was, and a row added is the record p resolved.
OtherRowsKept(p) ==
    /\ \A r \in store :
          r.id \notin {rec[p].id, rec'[p].id} => r \in store'
    /\ \A r2 \in store' :
          (\A r \in store : r.id # r2.id) => r2.id = rec'[p].id

\* C20 as stated: a step of an event handler leaves every row but the
\* resolved one as it was, and changes nothing but the counters on the
\* resolved one (updated_at is not part of the rows here).
C20_FrameOfMerge ==
    [][\A p \in Procs :
          EventStepOf(p) =>
              /\ OtherRowsKept(p)
              /\ \A r \in store :
                    \E r2 \in store' : r2 = [r EXCEPT !.cols = r2.cols]]_vars

\* C20, amended: a step of an event handler leaves every row but the
\* resolved one as it was, and on the resolved one changes nothing but the
\* counters and a missing candidate_id, which it sets to the event's
\* candidate_id; status, score, question_set_id, candidate_email, exam_id and
\* raw_feedback stay.
C20_FrameOfMergeAmended ==
    [][\A p \in Procs :
          EventStepOf(p) =>
              /\ OtherRowsKept(p)
              /\ \A r \in store :
                    \E r2 \in store' :
                        /\ r2 = [r EXCEPT !.cols = r2.cols,
                                          !.candidate_id = r2.candidate_id]
                        /\ r2.candidate_id # r.candidate_id =>
                              /\ r.candidate_id = None
                              /\ r2.candidate_id = data[p].candidate_id]_vars

\* The case of C20: a handler has just merged its event into one of two rows
\* of different Session Keys.
C20_Witness ==
    \E p \in Procs :
        /\ pc[p] = "emit1"
        /\ \E r \in store : \E r2 \in store :
              /\ r.id = rec[p].id
              /\ r2.id # r.id
              /\ KeyOf(r2) # KeyOf(r)
              /\ \E col \in VALID_COLUMNS : RowGet(r, col) > 0

====
